---------------------------- MODULE Spec2Model ----------------------------
(***************************************************************************)
(* Per-kilometer split aggregation of the garmin-activity-analyzer         *)
(* scripts: process_activity_data (utils.py), the loop of                   *)
(* analyze_multiple_activities (plot_activities.py) that filters its       *)
(* result and records the fastest split of every activity file, and the    *)
(* weekly summaries of plot_summary.py.                                    *)
(*                                                                         *)
(* Numbers are the float64 values of the pandas columns, modelled as exact *)
(* fractions [n, d] in lowest terms with d >= 0: d > 0 is the finite value *)
(* n/d, d = 0 is a non-finite value (n = 1: +inf, n = -1: -inf, n = 0:     *)
(* NaN).  Rounding error of float64 is not modelled.  A JSON null in a     *)
(* metrics row is stored by pd.DataFrame as NaN.                           *)
(***************************************************************************)
EXTENDS Integers, Sequences, FiniteSets

VARIABLES details, pc, df, km_stats, split_duration, valid_splits

\* analyze_multiple_activities: the files found, the loop's position in them,
\* the fastest split of the current file, the entries so far, the result
VARIABLES json_files, file_index, fastest_split, activity_stats, results_df

\* plot_summary.py: the summary files found, the activities loaded from them,
\* the results of calculate_weekly_distances and calculate_weekly_longest_runs
VARIABLES summary_files, activities, weekly_distances, weekly_longest

loopVars == <<json_files, file_index, fastest_split, activity_stats, results_df>>

summaryVars == <<summary_files, activities, weekly_distances, weekly_longest>>

\* get_activities.py, init_api: whether email and password are both set, the
\* token store, the client object, the calls made to the library and to the
\* user so far (with what each returned or raised), and the value returned
VARIABLES credentials, tokenstore, garmin, calls, api

loginVars == <<credentials, tokenstore, garmin, calls, api>>

vars == <<details, pc, df, km_stats, split_duration, valid_splits,
          loopVars, summaryVars, loginVars>>

---------------------------------------------------------------------------
(* float64 arithmetic *)

Abs(i) == IF i < 0 THEN -i ELSE i

Sgn(i) == IF i < 0 THEN -1 ELSE IF i > 0 THEN 1 ELSE 0

RECURSIVE Gcd(_, _)
Gcd(a, b) == IF b = 0 THEN a ELSE Gcd(b, a % b)

Norm(n, d) ==
    IF d = 0 THEN [n |-> Sgn(n), d |-> 0]
    ELSE LET g == Gcd(Abs(n), d) IN [n |-> n \div g, d |-> d \div g]

NaN == [n |-> 0, d |-> 0]

Num(i) == [n |-> i, d |-> 1]

IsNaN(x) == x.d = 0 /\ x.n = 0

IsInf(x) == x.d = 0 /\ x.n # 0

IsFinite(x) == x.d > 0

FSub(a, b) ==
    IF IsInf(a) /\ IsInf(b) THEN (IF a.n = b.n THEN NaN ELSE a)
    ELSE Norm(a.n * b.d - b.n * a.d, a.d * b.d)

FAdd(a, b) ==
    IF IsInf(a) /\ IsInf(b) THEN (IF a.n = b.n THEN a ELSE NaN)
    ELSE Norm(a.n * b.d + b.n * a.d, a.d * b.d)

\* a / b of two floats: x/0 is +inf or -inf by the sign of x, 0/0 is NaN
FDiv(a, b) ==
    LET s == IF b.n < 0 THEN -1 ELSE 1
    IN  Norm(s * a.n * b.d, s * a.d * b.n)

\* a < b; every comparison with NaN is False
FLess(a, b) ==
    /\ ~IsNaN(a)
    /\ ~IsNaN(b)
    /\ IF IsInf(a) /\ IsInf(b) THEN a.n < b.n ELSE a.n * b.d < b.n * a.d

\* int(x) of a finite float: truncation toward zero
Trunc(x) == IF x.n >= 0 THEN x.n \div x.d ELSE -((-x.n) \div x.d)

\* math.floor(x) of a finite float
Floor(x) == x.n \div x.d

---------------------------------------------------------------------------
(* the input: an activity's details JSON *)

MaxLen == 2

Keys == {"sumDistance", "sumDuration", "directHeartRate"}

Distances ==
    {NaN, Num(-500), Num(0), Num(500), Num(2000), Num(2500), Num(4500)}

Durations == {NaN, Num(0), Num(60)}

HeartRates == {NaN, Num(150)}

Samples == [sumDistance : Distances, sumDuration : Durations,
            directHeartRate : HeartRates]

Sample(dist, dur, hr) ==
    [sumDistance |-> Num(dist), sumDuration |-> Num(dur),
     directHeartRate |-> Num(hr)]

\* scenario 1 of the specification's concrete scenarios
Scenario1 ==
    [metricDescriptors |-> Keys,
     activityDetailMetrics |->
        << Sample(500, 200, 150), Sample(999, 399, 152),
           Sample(1000, 400, 151), Sample(1500, 650, 155),
           Sample(2000, 900, 158) >>]

\* scenario 4 of the specification: five records, the fastest pace at km 1
\* (4 min/km), the fastest from km 2 on at km 3 (5 min/km)
Scenario4 ==
    [metricDescriptors |-> Keys,
     activityDetailMetrics |->
        << Sample(900, 360, 140), Sample(1900, 600, 150),
           Sample(2900, 960, 152), Sample(3900, 1260, 156),
           Sample(4900, 1680, 158) >>]

\* two records past the warm-up with the same pace (5 min/km)
ScenarioTie ==
    [metricDescriptors |-> Keys,
     activityDetailMetrics |->
        << Sample(2900, 900, 150), Sample(3900, 1200, 155),
           Sample(4900, 1500, 160) >>]

\* samples out of order whose distances fall into buckets below zero
ScenarioNegative ==
    [metricDescriptors |-> Keys,
     activityDetailMetrics |->
        << Sample(500, 120, 150), Sample(-2500, 0, 140),
           Sample(-1500, 60, 145) >>]

\* a fastest split of 1799 s over 3 km: 9 min 59.67 s per km
ScenarioRollover ==
    [metricDescriptors |-> Keys,
     activityDetailMetrics |->
        << Sample(1900, 600, 150), Sample(4900, 2399, 155) >>]

\* the keys that some row of the metrics holds a number for
KeysUsed(rows) ==
    {k \in Keys : \E i \in 1..Len(rows) : ~IsNaN(rows[i][k])}

\* a metric without descriptor names no column: its values are not read
Inputs ==
    {[metricDescriptors |-> K, activityDetailMetrics |-> rows] :
        <<K, rows>> \in
            {kr \in (SUBSET Keys) \X UNION {[1..n -> Samples] : n \in 0..MaxLen} :
                KeysUsed(kr[2]) \subseteq kr[1]}}
    \cup {Scenario1, Scenario4, ScenarioTie, ScenarioNegative, ScenarioRollover}

NoResult == [kind |-> "none", exc |-> "", rows |-> <<>>]

\* a *_details.json file: the timestamp its name starts with (and whether
\* strptime parses it), whether json.load reads it, and what it holds
DetailsFile(timestamp, wellformed, readable, d) ==
    [name |-> [timestamp |-> timestamp, wellformed |-> wellformed],
     readable |-> readable, details |-> d]

NoSummary == [week_dates |-> <<>>, values |-> <<>>]

\* nothing of plot_summary.py has run
SummaryIdle ==
    /\ summary_files = <<>>
    /\ activities = <<>>
    /\ weekly_distances = NoSummary
    /\ weekly_longest = NoSummary

\* nothing of get_activities.py has run
LoginIdle ==
    /\ credentials = FALSE
    /\ tokenstore = "absent"
    /\ garmin = "unbound"
    /\ calls = <<>>
    /\ api = "unbound"

\* one activity file has been loaded inside the loop
Init ==
    /\ details \in Inputs
    /\ pc = "start"
    /\ df = <<>>
    /\ km_stats = NoResult
    /\ split_duration = <<>>
    /\ valid_splits = <<>>
    /\ json_files = <<DetailsFile(1, TRUE, TRUE, details)>>
    /\ file_index = 1
    /\ fastest_split = <<>>
    /\ activity_stats = <<>>
    /\ results_df = <<>>
    /\ SummaryIdle
    /\ LoginIdle

---------------------------------------------------------------------------
(* process_activity_data *)

\* the named columns of df: pd.DataFrame of no rows has no column at all
Columns(d) ==
    IF d.activityDetailMetrics = <<>> THEN {} ELSE d.metricDescriptors

\* df["distance_km"] = df["sumDistance"] / 1000
DistanceKm(x) == FDiv(x, Num(1000))

KmIntervalFloor(x) == Floor(x)

\* lambda x: int(x), of a finite x
KmInterval(x) == Trunc(x)

\* df after the columns distance_km and km_interval are added
WithKmInterval(rows) ==
    [i \in 1..Len(rows) |->
        [sumDistance     |-> rows[i].sumDistance,
         sumDuration     |-> rows[i].sumDuration,
         directHeartRate |-> rows[i].directHeartRate,
         distance_km     |-> DistanceKm(rows[i].sumDistance),
         km_interval     |-> KmInterval(DistanceKm(rows[i].sumDistance))]]

RECURSIVE Ascending(_)
Ascending(S) ==
    IF S = {} THEN <<>>
    ELSE LET m == CHOOSE x \in S : \A y \in S : x <= y
         IN  <<m>> \o Ascending(S \ {m})

RECURSIVE FirstSeen(_)
FirstSeen(col) ==
    IF col = <<>> THEN <<>>
    ELSE LET front == FirstSeen(SubSeq(col, 1, Len(col) - 1))
             x == col[Len(col)]
         IN  IF \E i \in 1..Len(front) : front[i] = x THEN front
             ELSE Append(front, x)

GroupKeysUnsorted(frame) ==
    FirstSeen([i \in 1..Len(frame) |-> frame[i].km_interval])

\* df.groupby("km_interval"): one group per distinct key, keys sorted
GroupKeys(frame) ==
    Ascending({frame[i].km_interval : i \in 1..Len(frame)})

\* the rows of one group, in the order of df
Group(frame, k) ==
    LET InGroup(r) == r.km_interval = k IN SelectSeq(frame, InGroup)

Column(rows, key) == [i \in 1..Len(rows) |-> rows[i][key]]

RECURSIVE AggLast(_)
AggLast(col) ==
    IF col = <<>> THEN NaN
    ELSE IF ~IsNaN(col[Len(col)]) THEN col[Len(col)]
    ELSE AggLast(SubSeq(col, 1, Len(col) - 1))

RECURSIVE AggMin(_)
AggMin(col) ==
    IF col = <<>> THEN NaN
    ELSE LET m == AggMin(SubSeq(col, 1, Len(col) - 1))
             x == col[Len(col)]
         IN  IF IsNaN(x) THEN m
             ELSE IF IsNaN(m) \/ FLess(x, m) THEN x
             ELSE m

\* "max": the largest value of the group, NaN skipped; NaN if none is left
RECURSIVE AggMax(_)
AggMax(col) ==
    IF col = <<>> THEN NaN
    ELSE LET m == AggMax(SubSeq(col, 1, Len(col) - 1))
             x == col[Len(col)]
         IN  IF IsNaN(x) THEN m
             ELSE IF IsNaN(m) \/ FLess(m, x) THEN x
             ELSE m

RECURSIVE NanSum(_)
NanSum(col) ==
    IF col = <<>> THEN Num(0)
    ELSE LET x == col[Len(col)]
             s == NanSum(SubSeq(col, 1, Len(col) - 1))
         IN  IF IsNaN(x) THEN s ELSE FAdd(s, x)

NotNaCount(col) == Cardinality({i \in 1..Len(col) : ~IsNaN(col[i])})

\* "mean": sum over count of the values that are not NaN; NaN if there is none
AggMean(col) == FDiv(NanSum(col), Num(NotNaCount(col)))

\* .agg({...}).reset_index(): one row per group
GroupByAgg(frame) ==
    LET keys == GroupKeys(frame)
    IN  [g \in 1..Len(keys) |->
            LET rows == Group(frame, keys[g])
            IN  [km_interval     |-> keys[g],
                 directHeartRate |-> AggMean(Column(rows, "directHeartRate")),
                 sumDistance     |-> AggMax(Column(rows, "sumDistance")),
                 sumDuration     |-> AggMax(Column(rows, "sumDuration"))]]

DiffFromFirst(col) ==
    [i \in 1..Len(col) |-> IF i = 1 THEN NaN ELSE FSub(col[i], col[1])]

\* Series.diff(): NaN first, then each value minus the one before it
Diff(col) ==
    [i \in 1..Len(col) |-> IF i = 1 THEN NaN ELSE FSub(col[i], col[i - 1])]

SplitNoFirst(col, unit) ==
    [i \in 1..Len(col) |-> FDiv(Diff(col)[i], Num(unit))]

\* col.diff()/unit, then .loc[0] = col.loc[0]/unit
Split(col, unit) ==
    [i \in 1..Len(col) |->
        IF i = 1 THEN FDiv(col[1], Num(unit))
        ELSE FDiv(Diff(col)[i], Num(unit))]

SecondsPerMinute == 60

MetersPerKm == 1000

SplitDurationSeconds(stats) == Split(Column(stats, "sumDuration"), 1)

SplitDuration(stats) == Split(Column(stats, "sumDuration"), SecondsPerMinute)

SplitDistance(stats) == Split(Column(stats, "sumDistance"), MetersPerKm)

\* km_stats with the columns interval_pace and interval_length added
WithPace(stats) ==
    [i \in 1..Len(stats) |->
        [km_interval     |-> stats[i].km_interval,
         directHeartRate |-> stats[i].directHeartRate,
         sumDistance     |-> stats[i].sumDistance,
         sumDuration     |-> stats[i].sumDuration,
         interval_pace   |-> FDiv(SplitDuration(stats)[i], SplitDistance(stats)[i]),
         interval_length |-> SplitDistance(stats)[i]]]

Raised(e) == [kind |-> "error", exc |-> e, rows |-> <<>>]

Returned(rows) == [kind |-> "ok", exc |-> "", rows |-> rows]

\* the columns of df that hold no number at all: pd.DataFrame keeps such a
\* column as dtype object (all None) instead of float64 (NaN)
ObjectColumns(d) ==
    {k \in Columns(d) :
        \A i \in 1..Len(d.activityDetailMetrics) :
            IsNaN(d.activityDetailMetrics[i][k])}

\* whether groupby().agg() and diff() accept an all-None object column (and
\* treat it as NaN) or raise TypeError depends on the pandas version
ObjectOutcomes(d) ==
    IF ObjectColumns(d) \cap {"directHeartRate", "sumDuration"} = {}
    THEN {"float64"}
    ELSE {"as NaN", "TypeError"}

\* the call process_activity_data(details): what it returns or raises, with
\* the local df and split_duration as they are when it ends
ProcessActivityData ==
    /\ pc = "start"
    /\ LET rows == details.activityDetailMetrics
           cols == Columns(details)
       IN  IF "sumDistance" \notin cols
           THEN /\ km_stats' = Raised("KeyError")
                /\ df' = <<>>
                /\ split_duration' = <<>>
                /\ pc' = "raised"
           ELSE IF "sumDistance" \in ObjectColumns(details)
           THEN /\ km_stats' = Raised("TypeError")
                /\ df' = <<>>
                /\ split_duration' = <<>>
                /\ pc' = "raised"
           ELSE IF \E i \in 1..Len(rows) : IsNaN(rows[i].sumDistance)
           THEN /\ km_stats' = Raised("ValueError")
                /\ df' = <<>>
                /\ split_duration' = <<>>
                /\ pc' = "raised"
           ELSE IF ~({"directHeartRate", "sumDuration"} \subseteq cols)
           THEN /\ km_stats' = Raised("KeyError")
                /\ df' = WithKmInterval(rows)
                /\ split_duration' = <<>>
                /\ pc' = "raised"
           ELSE \E outcome \in ObjectOutcomes(details) :
                IF outcome = "TypeError"
                THEN /\ km_stats' = Raised("TypeError")
                     /\ df' = WithKmInterval(rows)
                     /\ split_duration' = <<>>
                     /\ pc' = "raised"
                ELSE /\ df' = WithKmInterval(rows)
                     /\ split_duration' = SplitDuration(GroupByAgg(df'))
                     /\ km_stats' = Returned(WithPace(GroupByAgg(df')))
                     /\ pc' = "returned"
    /\ UNCHANGED <<details, valid_splits, loopVars, summaryVars,
                   loginVars>>

---------------------------------------------------------------------------
(* the split filter of analyze_multiple_activities *)

WarmUpKm == 2

ValidSplitNoWarmUp(r) ==
    /\ ~IsNaN(r.interval_pace)
    /\ ~IsInf(r.interval_pace)
    /\ FLess(Num(0), r.interval_pace)

\* the boolean mask: notna & ~isinf & (pace > 0) & (km_interval >= 2)
ValidSplit(r) ==
    /\ ~IsNaN(r.interval_pace)
    /\ ~IsInf(r.interval_pace)
    /\ FLess(Num(0), r.interval_pace)
    /\ r.km_interval >= WarmUpKm

ValidSplitsPositional(rows) ==
    LET paced == SelectSeq(rows, ValidSplitNoWarmUp)
    IN  SubSeq(paced, WarmUpKm + 1, Len(paced))

\* km_stats[mask]: the rows the mask holds for, in their order
ValidSplits(rows) == SelectSeq(rows, ValidSplit)

\* valid_splits = km_stats[mask]
FilterValidSplits ==
    /\ pc = "returned"
    /\ valid_splits' = ValidSplits(km_stats.rows)
    /\ pc' = "filtered"
    /\ UNCHANGED <<details, df, km_stats, split_duration, loopVars, summaryVars,
                   loginVars>>

---------------------------------------------------------------------------
(* the fastest split and the entry of analyze_multiple_activities *)

RECURSIVE IdxMinLast(_)
IdxMinLast(col) ==
    IF Len(col) = 1 THEN 1
    ELSE LET m == IdxMinLast(SubSeq(col, 1, Len(col) - 1))
         IN  IF FLess(col[m], col[Len(col)]) THEN m ELSE Len(col)

\* Series.idxmin(): the position of the first occurrence of the minimum
RECURSIVE IdxMin(_)
IdxMin(col) ==
    IF Len(col) = 1 THEN 1
    ELSE LET m == IdxMin(SubSeq(col, 1, Len(col) - 1))
         IN  IF FLess(col[Len(col)], col[m]) THEN Len(col) ELSE m

\* valid_splits.loc[valid_splits["interval_pace"].idxmin()]
FastestSplit(splits) == splits[IdxMin(Column(splits, "interval_pace"))]

\* round(x) of a finite float: to the nearest integer, a half to the even one
Round(x) ==
    LET q == x.n \div x.d
        r == x.n - q * x.d
    IN  IF 2 * r < x.d THEN q
        ELSE IF 2 * r > x.d THEN q + 1
        ELSE IF q % 2 = 0 THEN q ELSE q + 1

\* a * b of two floats
FMul(a, b) == Norm(a.n * b.n, a.d * b.d)

DigitChars == <<"0", "1", "2", "3", "4", "5", "6", "7", "8", "9">>

\* str(n) of an integer n >= 0, as the sequence of its characters
RECURSIVE Decimal(_)
Decimal(n) ==
    IF n < 10 THEN <<DigitChars[n + 1]>>
    ELSE Append(Decimal(n \div 10), DigitChars[(n % 10) + 1])

\* f"{n:02d}" of an integer n >= 0: zero-padded to at least two characters
Format02d(n) == IF n < 10 THEN <<"0">> \o Decimal(n) ELSE Decimal(n)

\* the dict appended to activity_stats; minutes and seconds are the locals
\* that fastest_pace_str is formatted from
Entry(name, fastest, splits) ==
    LET pace == fastest.interval_pace
        minutes == Trunc(pace)
    IN  [timestamp     |-> name.timestamp,
         distance      |-> FDiv(AggMax(Column(splits, "sumDistance")),
                                Num(MetersPerKm)),
         fastest_km    |-> fastest.km_interval,
         fastest_pace  |-> pace,
         minutes       |-> minutes,
         seconds       |-> Round(FMul(FSub(pace, Num(minutes)),
                                      Num(SecondsPerMinute))),
         fastest_pace_str |->
            Format02d(minutes) \o <<":">> \o
            Format02d(Round(FMul(FSub(pace, Num(minutes)),
                                 Num(SecondsPerMinute)))),
         hr_at_fastest |-> fastest.directHeartRate]

\* the rest of the loop body: no valid split skips the file (continue);
\* otherwise the fastest split is taken and the file's entry appended, unless
\* strptime raises ValueError on the file name
\* the loop body without its test for an empty frame (l.40-42): idxmin of an
\* empty column raises ValueError
RecordFastestSplitUnguarded ==
    /\ pc = "filtered"
    /\ IF valid_splits = <<>>
       THEN /\ pc' = "raised"
            /\ UNCHANGED <<fastest_split, activity_stats>>
       ELSE /\ fastest_split' = <<FastestSplit(valid_splits)>>
            /\ IF json_files[file_index].name.wellformed
               THEN /\ activity_stats' =
                          Append(activity_stats,
                                 Entry(json_files[file_index].name,
                                       FastestSplit(valid_splits), valid_splits))
                    /\ pc' = "appended"
               ELSE /\ pc' = "raised"
                    /\ UNCHANGED activity_stats
    /\ UNCHANGED <<details, df, km_stats, split_duration, valid_splits,
                   json_files, file_index, results_df, summaryVars,
                   loginVars>>

RecordFastestSplit ==
    /\ pc = "filtered"
    /\ IF valid_splits = <<>>
       THEN /\ pc' = "skipped"
            /\ UNCHANGED <<fastest_split, activity_stats>>
       ELSE /\ fastest_split' = <<FastestSplit(valid_splits)>>
            /\ IF json_files[file_index].name.wellformed
               THEN /\ activity_stats' =
                          Append(activity_stats,
                                 Entry(json_files[file_index].name,
                                       FastestSplit(valid_splits), valid_splits))
                    /\ pc' = "appended"
               ELSE /\ pc' = "raised"
                    /\ UNCHANGED activity_stats
    /\ UNCHANGED <<details, df, km_stats, split_duration, valid_splits,
                   json_files, file_index, results_df, summaryVars,
                   loginVars>>

Next == ProcessActivityData \/ FilterValidSplits \/ RecordFastestSplit

Spec == Init /\ [][Next]_vars

---------------------------------------------------------------------------
(* analyze_multiple_activities over a directory of *_details.json files *)

MaxFiles == 2

\* a recording too short to have a split past the warm-up
ShortRun ==
    [metricDescriptors |-> Keys,
     activityDetailMetrics |-> << Sample(500, 200, 150) >>]

\* a file without samples: process_activity_data raises KeyError
NoSamples == [metricDescriptors |-> Keys, activityDetailMetrics |-> <<>>]

\* a recording with one split past the warm-up
LongRun ==
    [metricDescriptors |-> Keys,
     activityDetailMetrics |->
        << Sample(1900, 600, 150), Sample(2900, 900, 152) >>]

\* what json.load returns for the files of the directory
BatchContents == {LongRun, ShortRun, NoSamples}

\* the files that glob may find: distinct names, in any order; a file that
\* json.load cannot read has no content
BatchFiles ==
    {DetailsFile(t, w, TRUE, d) :
        <<t, w, d>> \in (1..MaxFiles) \X BOOLEAN \X BatchContents}
    \cup {DetailsFile(t, w, FALSE, NoSamples) :
            <<t, w>> \in (1..MaxFiles) \X BOOLEAN}

Directories ==
    {fs \in UNION {[1..n -> BatchFiles] : n \in 0..MaxFiles} :
        \A i, j \in 1..Len(fs) :
            fs[i].name.timestamp = fs[j].name.timestamp => i = j}

InitBatch ==
    /\ json_files \in Directories
    /\ file_index = 1
    /\ pc = "glob"
    /\ details = NoSamples
    /\ df = <<>>
    /\ km_stats = NoResult
    /\ split_duration = <<>>
    /\ valid_splits = <<>>
    /\ fastest_split = <<>>
    /\ activity_stats = <<>>
    /\ results_df = <<>>
    /\ SummaryIdle
    /\ LoginIdle

\* l.14-20: no file found raises RuntimeError; otherwise the loop starts
FindFiles ==
    /\ pc = "glob"
    /\ pc' = IF json_files = <<>> THEN "no_files" ELSE "next"
    /\ UNCHANGED <<details, df, km_stats, split_duration, valid_splits,
                   loopVars, summaryVars,
                   loginVars>>

\* l.22-27: the loop takes the next file and json.load reads it, or raises
OpenFile ==
    /\ pc = "next"
    /\ file_index <= Len(json_files)
    /\ IF json_files[file_index].readable
       THEN /\ details' = json_files[file_index].details
            /\ pc' = "start"
       ELSE /\ pc' = "raised"
            /\ UNCHANGED details
    /\ UNCHANGED <<df, km_stats, split_duration, valid_splits, loopVars,
                   summaryVars,
                   loginVars>>

\* the except clause swallowing the exception and leaving the loop (break)
HandleExceptionBreak ==
    /\ pc = "raised"
    /\ file_index' = Len(json_files) + 1
    /\ pc' = "next"
    /\ UNCHANGED <<details, df, km_stats, split_duration, valid_splits,
                   json_files, fastest_split, activity_stats, results_df,
                   summaryVars,
                   loginVars>>

\* l.65-66: any exception of the loop body is printed; the loop goes on
HandleException ==
    /\ pc = "raised"
    /\ file_index' = file_index + 1
    /\ pc' = "next"
    /\ UNCHANGED <<details, df, km_stats, split_duration, valid_splits,
                   json_files, fastest_split, activity_stats, results_df,
                   summaryVars,
                   loginVars>>

\* l.22: after continue (l.42) or the end of the body (l.63), the next file
NextFile ==
    /\ pc \in {"skipped", "appended"}
    /\ file_index' = file_index + 1
    /\ pc' = "next"
    /\ UNCHANGED <<details, df, km_stats, split_duration, valid_splits,
                   json_files, fastest_split, activity_stats, results_df,
                   summaryVars,
                   loginVars>>

\* the entries in ascending timestamp order (sort_values("timestamp"))
RECURSIVE SortByTimestamp(_)
SortByTimestamp(stats) ==
    IF stats = <<>> THEN <<>>
    ELSE LET first == CHOOSE i \in 1..Len(stats) :
                         \A j \in 1..Len(stats) :
                            stats[i].timestamp <= stats[j].timestamp
         IN  <<stats[first]>> \o
             SortByTimestamp(SubSeq(stats, 1, first - 1) \o
                             SubSeq(stats, first + 1, Len(stats)))

\* l.68-75: after the last file, the table of the entries (empty if none)
ReturnResults ==
    /\ pc = "next"
    /\ file_index > Len(json_files)
    /\ results_df' = SortByTimestamp(activity_stats)
    /\ pc' = "done"
    /\ UNCHANGED <<details, df, km_stats, split_duration, valid_splits,
                   json_files, file_index, fastest_split, activity_stats,
                   summaryVars,
                   loginVars>>

NextBatch ==
    \/ FindFiles
    \/ OpenFile
    \/ ProcessActivityData
    \/ FilterValidSplits
    \/ RecordFastestSplit
    \/ HandleException
    \/ NextFile
    \/ ReturnResults

SpecBatch == InitBatch /\ [][NextBatch]_vars

---------------------------------------------------------------------------
(* plot_summary.py: the running activities of a directory of *_summary.json
   files and their weekly distances.  A timestamp is a number of hours since
   a Monday 00:00; None is NaN. *)

MaxSummaryFiles == 3

HoursPerDay == 24

DaysPerWeek == 7

\* Monday 00:00, Sunday 23:00 of the same week, the next Monday 00:00
Timestamps == {0, 167, 168}

SummaryDistances == {NaN, Num(-1000), Num(5000), Num(10000)}

\* a *_summary.json file: the timestamp its name starts with (and whether
\* fromisoformat parses it), whether json.load decodes it, and its fields
SummaryFile(timestamp, wellformed, decodes, typeKey, averageSpeed, distance) ==
    [name |-> [timestamp |-> timestamp, wellformed |-> wellformed],
     decodes |-> decodes, typeKey |-> typeKey, averageSpeed |-> averageSpeed,
     averageHR |-> Num(150), distance |-> distance, activityName |-> "Run"]

\* running activities with a speed at every timestamp and distance, and one
\* file of each other kind: a name that does not parse, no average speed,
\* another activity type, not JSON
SummaryFiles ==
    {SummaryFile(t, TRUE, TRUE, "running", Num(3), d) :
        <<t, d>> \in Timestamps \X SummaryDistances}
    \cup {SummaryFile(0, FALSE, TRUE, "running", Num(3), Num(5000)),
          SummaryFile(0, TRUE, TRUE, "running", NaN, Num(5000)),
          SummaryFile(0, TRUE, TRUE, "cycling", Num(3), Num(5000)),
          SummaryFile(0, TRUE, FALSE, "running", Num(3), Num(5000))}

InitSummary ==
    /\ summary_files \in UNION {[1..n -> SummaryFiles] : n \in 0..MaxSummaryFiles}
    /\ activities = <<>>
    /\ weekly_distances = NoSummary
    /\ weekly_longest = NoSummary
    /\ pc = "summary"
    /\ details = NoSamples
    /\ df = <<>>
    /\ km_stats = NoResult
    /\ split_duration = <<>>
    /\ valid_splits = <<>>
    /\ json_files = <<>>
    /\ file_index = 1
    /\ fastest_split = <<>>
    /\ activity_stats = <<>>
    /\ results_df = <<>>
    /\ LoginIdle

\* l.43-75, loop body without its type test: every decodable file is taken
AppendsAnyType(f) ==
    /\ f.decodes
    /\ f.name.wellformed
    /\ ~IsNaN(f.averageSpeed)

\* l.43-75: the loop body appends a tuple for the file: json.load decodes it
\* (else JSONDecodeError, caught), its type key is "running" (else continue),
\* fromisoformat parses its name (else ValueError, caught) and its average
\* speed is not None (else a warning)
Appends(f) ==
    /\ f.decodes
    /\ f.typeKey = "running"
    /\ f.name.wellformed
    /\ ~IsNaN(f.averageSpeed)

\* l.66: (timestamp, avg_speed, avg_hr, distance, activity_name)
Activity(f) ==
    [timestamp |-> f.name.timestamp, avg_speed |-> f.averageSpeed,
     avg_hr |-> f.averageHR, distance |-> f.distance,
     activity_name |-> f.activityName]

\* l.77: list.sort(key=lambda x: x[0]), a stable sort
RECURSIVE StableSort(_)
StableSort(acts) ==
    IF acts = <<>> THEN <<>>
    ELSE LET first == CHOOSE i \in 1..Len(acts) :
                         \A j \in 1..Len(acts) :
                            \/ acts[i].timestamp < acts[j].timestamp
                            \/ acts[i].timestamp = acts[j].timestamp /\ i <= j
         IN  <<acts[first]>> \o
             StableSort(SubSeq(acts, 1, first - 1) \o
                        SubSeq(acts, first + 1, Len(acts)))

\* the tuples in the order the loop appends them
Appended(files) ==
    LET kept == SelectSeq(files, Appends)
    IN  [i \in 1..Len(kept) |-> Activity(kept[i])]

\* the call load_running_activities(): FileNotFoundError when there is no
\* summary file, else the sorted list of tuples
LoadRunningActivities ==
    /\ pc = "summary"
    /\ IF summary_files = <<>>
       THEN /\ pc' = "raised"
            /\ UNCHANGED activities
       ELSE /\ activities' = StableSort(Appended(summary_files))
            /\ pc' = "loaded"
    /\ UNCHANGED <<details, df, km_stats, split_duration, valid_splits,
                   loopVars, summary_files, weekly_distances, weekly_longest,
                   loginVars>>

\* week_start without replace(hour=0, ...): the same time of day on Monday
WeekStartSameHour(timestamp) ==
    timestamp - ((timestamp \div HoursPerDay) % DaysPerWeek) * HoursPerDay

\* l.102-104: timestamp - timedelta(days=timestamp.weekday()), at 00:00
WeekStart(timestamp) ==
    LET days_since_monday == (timestamp \div HoursPerDay) % DaysPerWeek
        week_start == timestamp - days_since_monday * HoursPerDay
    IN  (week_start \div HoursPerDay) * HoursPerDay

\* the keys of the defaultdict: the weeks of the activities with a distance
WeekKeys(acts) ==
    {WeekStart(acts[i].timestamp) :
        i \in {j \in 1..Len(acts) : ~IsNaN(acts[j].distance)}}

\* l.107: weekly_distances[week_start] += distance / 1000.0, from 0.0
RECURSIVE WeekTotal(_, _)
WeekTotal(acts, week) ==
    IF acts = <<>> THEN Num(0)
    ELSE LET before == WeekTotal(SubSeq(acts, 1, Len(acts) - 1), week)
             last == acts[Len(acts)]
         IN  IF ~IsNaN(last.distance) /\ WeekStart(last.timestamp) = week
             THEN FAdd(before, FDiv(last.distance, Num(MetersPerKm)))
             ELSE before

\* an assignment that keeps the latest distance instead of the maximum
FMaxLatest(a, b) == b

\* max(a, b) of Python: b when b > a, else a
FMax(a, b) == IF FLess(a, b) THEN b ELSE a

\* l.142-143: weekly_longest[week_start] = max(weekly_longest[week_start],
\* distance_km), from 0.0
RECURSIVE WeekLongest(_, _)
WeekLongest(acts, week) ==
    IF acts = <<>> THEN Num(0)
    ELSE LET before == WeekLongest(SubSeq(acts, 1, Len(acts) - 1), week)
             last == acts[Len(acts)]
         IN  IF ~IsNaN(last.distance) /\ WeekStart(last.timestamp) = week
             THEN FMax(before, FDiv(last.distance, Num(MetersPerKm)))
             ELSE before

\* l.110-111, l.146-147: the weeks of sorted(items())
WeekDates(acts) == Ascending(WeekKeys(acts))

\* the call calculate_weekly_distances(activities) (l.179), which
\* plot_running_speeds reaches when the list is not empty (l.161-163)
CalculateWeeklyDistances ==
    /\ pc = "loaded"
    /\ activities # <<>>
    /\ weekly_distances' =
          [week_dates |-> WeekDates(activities),
           values |-> [i \in 1..Len(WeekDates(activities)) |->
                          WeekTotal(activities, WeekDates(activities)[i])]]
    /\ pc' = "distances"
    /\ UNCHANGED <<details, df, km_stats, split_duration, valid_splits,
                   loopVars, summary_files, activities, weekly_longest,
                   loginVars>>

\* the call calculate_weekly_longest_runs(activities) (l.182)
CalculateWeeklyLongestRuns ==
    /\ pc = "distances"
    /\ weekly_longest' =
          [week_dates |-> WeekDates(activities),
           values |-> [i \in 1..Len(WeekDates(activities)) |->
                          WeekLongest(activities, WeekDates(activities)[i])]]
    /\ pc' = "longest"
    /\ UNCHANGED <<details, df, km_stats, split_duration, valid_splits,
                   loopVars, summary_files, activities, weekly_distances,
                   loginVars>>

NextSummary ==
    \/ LoadRunningActivities
    \/ CalculateWeeklyDistances
    \/ CalculateWeeklyLongestRuns

SpecSummary == InitSummary /\ [][NextSummary]_vars

---------------------------------------------------------------------------
(* get_activities.py: init_api.  Every call to the garminconnect library or
   to the user is one step; the library is outside the repository, so what a
   call returns or raises is any of the outcomes below. *)

\* the exceptions of the first except clause (l.51)
TokenLoginCaught ==
    {"FileNotFoundError", "GarthHTTPError", "GarminConnectAuthenticationError"}

\* the exceptions of the second except clause (l.87-92)
FallbackCaught == TokenLoginCaught \cup {"HTTPError"}

\* what a call may raise: the exceptions named in the file and one that no
\* except clause names
Exceptions == FallbackCaught \cup {"GarminConnectConnectionError"}

Call(op, result) == [op |-> op, result |-> result]

\* the file's state otherwise: no analysis has run
AnalysisIdle ==
    /\ details = NoSamples
    /\ df = <<>>
    /\ km_stats = NoResult
    /\ split_duration = <<>>
    /\ valid_splits = <<>>
    /\ json_files = <<>>
    /\ file_index = 1
    /\ fastest_split = <<>>
    /\ activity_stats = <<>>
    /\ results_df = <<>>
    /\ SummaryIdle

\* init_api(email, password) is called: the environment gives both or not
\* (l.24-25), and the token directory exists or not (l.26)
InitLogin ==
    /\ pc = "init_api"
    /\ credentials \in BOOLEAN
    /\ tokenstore \in {"absent", "stored"}
    /\ garmin = "unbound"
    /\ calls = <<>>
    /\ api = "unbound"
    /\ AnalysisIdle

analysisVars ==
    <<details, df, km_stats, split_duration, valid_splits, loopVars,
      summaryVars>>

\* a step of the fallback that raises e: the second except clause logs it
\* and returns None, or e propagates out of init_api
FallbackRaises(e) ==
    IF e \in FallbackCaught
    THEN pc' = "returned_none" /\ api' = "None"
    ELSE pc' = "propagated" /\ UNCHANGED api

\* a token login that sends every outcome to the credential fallback
TokenLoginAlwaysFallsBack ==
    /\ pc = "init_api"
    /\ \E result \in {"ok"} \cup Exceptions :
          /\ calls' = Append(calls, Call("login(tokenstore)", result))
          /\ garmin' = "logged out"
          /\ pc' = "fallback"
          /\ UNCHANGED api
    /\ UNCHANGED <<credentials, tokenstore, analysisVars>>

\* l.48-49: garmin = Garmin(); garmin.login(tokenstore).  A missing token
\* directory raises FileNotFoundError; success leaves the try and returns
\* garmin (l.96)
TokenLogin ==
    /\ pc = "init_api"
    /\ \E result \in IF tokenstore = "absent" THEN {"FileNotFoundError"}
                     ELSE {"ok"} \cup Exceptions :
          /\ calls' = Append(calls, Call("login(tokenstore)", result))
          /\ IF result = "ok"
             THEN /\ garmin' = "logged in"
                  /\ api' = "logged in"
                  /\ pc' = "returned_client"
             ELSE /\ garmin' = "logged out"
                  /\ UNCHANGED api
                  /\ pc' = IF result \in TokenLoginCaught THEN "fallback"
                           ELSE "propagated"
    /\ UNCHANGED <<credentials, tokenstore, analysisVars>>

\* l.59-60: credentials are asked for when email or password is not set
AskCredentials ==
    /\ pc = "fallback"
    /\ IF credentials
       THEN UNCHANGED <<credentials, calls>>
       ELSE /\ calls' = Append(calls, Call("get_credentials", "ok"))
            /\ credentials' = TRUE
    /\ pc' = "credential_login"
    /\ UNCHANGED <<tokenstore, garmin, api, analysisVars>>

\* a credential login that takes needs_mfa for a completed login
CredentialLoginIgnoresMfa ==
    /\ pc = "credential_login"
    /\ \E result \in {"ok", "needs_mfa"} \cup Exceptions :
          /\ calls' = Append(calls, Call("login()", result))
          /\ IF result \in {"ok", "needs_mfa"}
             THEN /\ garmin' = IF result = "ok" THEN "logged in" ELSE "needs_mfa"
                  /\ pc' = "dump"
                  /\ UNCHANGED api
             ELSE /\ garmin' = "logged out"
                  /\ FallbackRaises(result)
    /\ UNCHANGED <<credentials, tokenstore, analysisVars>>

\* l.62-66: garmin = Garmin(email, password, return_on_mfa=True);
\* garmin.login() returns, with needs_mfa or without, or raises
CredentialLogin ==
    /\ pc = "credential_login"
    /\ \E result \in {"ok", "needs_mfa"} \cup Exceptions :
          /\ calls' = Append(calls, Call("login()", result))
          /\ IF result = "ok"
             THEN garmin' = "logged in" /\ pc' = "dump" /\ UNCHANGED api
             ELSE IF result = "needs_mfa"
             THEN garmin' = "needs_mfa" /\ pc' = "mfa" /\ UNCHANGED api
             ELSE garmin' = "logged out" /\ FallbackRaises(result)
    /\ UNCHANGED <<credentials, tokenstore, analysisVars>>

\* l.67: mfa_code = get_mfa()
GetMfa ==
    /\ pc = "mfa"
    /\ calls' = Append(calls, Call("get_mfa", "ok"))
    /\ pc' = "resume_login"
    /\ UNCHANGED <<credentials, tokenstore, garmin, api, analysisVars>>

\* l.68: garmin.resume_login(result2, mfa_code)
ResumeLogin ==
    /\ pc = "resume_login"
    /\ \E result \in {"ok"} \cup Exceptions :
          /\ calls' = Append(calls, Call("resume_login", result))
          /\ IF result = "ok"
             THEN garmin' = "logged in" /\ pc' = "dump" /\ UNCHANGED api
             ELSE UNCHANGED garmin /\ FallbackRaises(result)
    /\ UNCHANGED <<credentials, tokenstore, analysisVars>>

\* l.71: garmin.garth.dump(tokenstore) writes the tokens of the session
DumpTokens ==
    /\ pc = "dump"
    /\ \E result \in {"ok"} \cup Exceptions :
          /\ calls' = Append(calls, Call("dump", result))
          /\ IF result = "ok"
             THEN tokenstore' = "written" /\ pc' = "relogin" /\ UNCHANGED api
             ELSE UNCHANGED tokenstore /\ FallbackRaises(result)
    /\ UNCHANGED <<credentials, garmin, analysisVars>>

\* l.86, l.96: garmin.login(tokenstore) again, then return garmin
TokenRelogin ==
    /\ pc = "relogin"
    /\ \E result \in {"ok"} \cup Exceptions :
          /\ calls' = Append(calls, Call("login(tokenstore)", result))
          /\ IF result = "ok"
             THEN /\ garmin' = "logged in"
                  /\ api' = "logged in"
                  /\ pc' = "returned_client"
             ELSE /\ garmin' = "logged out"
                  /\ FallbackRaises(result)
    /\ UNCHANGED <<credentials, tokenstore, analysisVars>>

NextLogin ==
    \/ TokenLogin
    \/ AskCredentials
    \/ CredentialLogin
    \/ GetMfa
    \/ ResumeLogin
    \/ DumpTokens
    \/ TokenRelogin

SpecLogin == InitLogin /\ [][NextLogin]_vars

---------------------------------------------------------------------------
(* what the claims are stated over *)

samples == details.activityDetailMetrics

records == km_stats.rows

Returns == km_stats.kind = "ok"

\* every sample carries a distance, a duration and a heart rate
CompleteSamples ==
    \A i \in 1..Len(samples) : \A k \in Keys : ~IsNaN(samples[i][k])

\* a <= b of two floats; False when either is NaN
FLeq(a, b) == ~IsNaN(a) /\ ~IsNaN(b) /\ (a = b \/ FLess(a, b))

\* no sample has a negative cumulative distance
NonNegativeDistances ==
    \A i \in 1..Len(samples) : FLeq(Num(0), samples[i].sumDistance)

\* the samples of df that fall into the bucket of record r, in input order
Bucket(r) == Group(df, r.km_interval)

---------------------------------------------------------------------------
\* C1: whenever process_activity_data returns, in any input order, it returns
\* exactly one record per distinct bucket key observed among the samples,
\* every record's key is an observed one, and the records are in strictly
\* ascending km_interval order (so no key is repeated and an index no sample
\* falls into has no record).
C1_OneRecordPerBucketAscending ==
    Returns =>
        LET observed == {df[i].km_interval : i \in 1..Len(df)}
        IN  /\ Len(samples) > 0
            /\ Len(records) = Cardinality(observed)
            /\ \A g \in 1..Len(records) : records[g].km_interval \in observed
            /\ \A g, h \in 1..Len(records) :
                  g < h => records[g].km_interval < records[h].km_interval

\* C1's case: samples out of order, with a kilometer index skipped between them
C1_Witness ==
    /\ Returns
    /\ CompleteSamples
    /\ Len(records) = 2
    /\ \E i, j \in 1..Len(df) :
          i < j /\ df[i].km_interval > df[j].km_interval + 1

\* C2: every record's interval distance is (its boundary distance - previous
\* boundary distance) / 1000 and its interval duration is (its boundary
\* duration - previous boundary duration) / 60, the previous boundary being
\* that of the record emitted just before it, and zero for the first record.
C2_IntervalsFromPreviousBoundary ==
    Returns =>
        /\ Len(split_duration) = Len(records)
        /\ \A g \in 1..Len(records) :
              LET prevDistance ==
                      IF g = 1 THEN Num(0) ELSE records[g - 1].sumDistance
                  prevDuration ==
                      IF g = 1 THEN Num(0) ELSE records[g - 1].sumDuration
              IN  /\ records[g].interval_length =
                        FDiv(FSub(records[g].sumDistance, prevDistance), Num(1000))
                  /\ split_duration[g] =
                        FDiv(FSub(records[g].sumDuration, prevDuration), Num(60))

\* C2's case: a first record of kilometer index above 0 with non-zero
\* boundaries, followed by a record two or more kilometer indices later
C2_Witness ==
    /\ Returns
    /\ CompleteSamples
    /\ Len(records) = 2
    /\ records[1].km_interval > 0
    /\ records[2].km_interval >= records[1].km_interval + 2
    /\ FLess(Num(0), records[1].interval_length)
    /\ FLess(Num(0), split_duration[1])
    /\ IsFinite(split_duration[2])

\* C3 (as claimed), for samples that are all complete: no returned record
\* carries an infinite pace, and a record whose interval distance is 0 has an
\* undefined (NaN) pace.
C3_NoInfinitePace ==
    (Returns /\ CompleteSamples) =>
        \A g \in 1..Len(records) :
            /\ ~IsInf(records[g].interval_pace)
            /\ records[g].interval_length = Num(0) =>
                  IsNaN(records[g].interval_pace)

\* C4 (as claimed), for complete samples at non-negative distances: every
\* record's boundary distance and duration are those of the last sample of
\* its bucket in input order.
C4_BoundaryIsLastSample ==
    (Returns /\ CompleteSamples /\ NonNegativeDistances) =>
        \A g \in 1..Len(records) :
            LET last == Bucket(records[g])[Len(Bucket(records[g]))]
            IN  /\ records[g].sumDistance = last.sumDistance
                /\ records[g].sumDuration = last.sumDuration

\* the largest of the numbers of col, NaN when col holds no number
IsLargest(v, col) ==
    LET present == {i \in 1..Len(col) : ~IsNaN(col[i])}
    IN  IF present = {} THEN IsNaN(v)
        ELSE /\ \E i \in present : col[i] = v
             /\ \A i \in present : FLeq(col[i], v)

NonDecreasing(col) ==
    \A i \in 1..Len(col) - 1 : FLeq(col[i], col[i + 1])

\* C4 (amended): every record's boundary distance is the largest cumulative
\* distance among its bucket's samples and its boundary duration the largest
\* cumulative duration among them (absent durations skipped), each on its own;
\* each is the value of the bucket's last sample in input order whenever that
\* value does not decrease inside the bucket.
C4_BoundaryIsLargest ==
    Returns =>
        \A g \in 1..Len(records) :
            LET distances == Column(Bucket(records[g]), "sumDistance")
                durations == Column(Bucket(records[g]), "sumDuration")
            IN  /\ IsLargest(records[g].sumDistance, distances)
                /\ IsLargest(records[g].sumDuration, durations)
                /\ NonDecreasing(distances) =>
                      records[g].sumDistance = distances[Len(distances)]
                /\ NonDecreasing(durations) =>
                      records[g].sumDuration = durations[Len(durations)]

\* C4's case: distance and duration both decrease inside one bucket
C4_Witness ==
    /\ Returns
    /\ CompleteSamples
    /\ \E i, j \in 1..Len(df) :
          /\ i < j
          /\ df[i].km_interval = df[j].km_interval
          /\ FLess(df[j].sumDistance, df[i].sumDistance)
          /\ FLess(df[j].sumDuration, df[i].sumDuration)

\* C5 (as claimed), for samples that are all complete: every sample's bucket
\* is floor(distance / 1000), that is
\* 1000 * km_interval <= distance < 1000 * (km_interval + 1).
C5_BucketIsFloor ==
    (Returns /\ CompleteSamples) => \A i \in 1..Len(df) :
        /\ FLeq(Num(1000 * df[i].km_interval), df[i].sumDistance)
        /\ FLess(df[i].sumDistance, Num(1000 * (df[i].km_interval + 1)))

\* C5 (amended): every sample's bucket is distance / 1000 truncated toward
\* zero: floor(distance / 1000) for every distance >= 0, exact multiples of
\* 1000 included, and ceil(distance / 1000) for every negative distance.
C5_BucketIsTruncation ==
    \A i \in 1..Len(df) :
        IF FLeq(Num(0), df[i].sumDistance)
        THEN /\ FLeq(Num(1000 * df[i].km_interval), df[i].sumDistance)
             /\ FLess(df[i].sumDistance, Num(1000 * (df[i].km_interval + 1)))
        ELSE /\ FLess(Num(1000 * (df[i].km_interval - 1)), df[i].sumDistance)
             /\ FLeq(df[i].sumDistance, Num(1000 * df[i].km_interval))

\* C5's case: a negative distance and an exact multiple of 1000 are bucketed
C5_Witness ==
    /\ Returns
    /\ CompleteSamples
    /\ \E i \in 1..Len(df) : FLess(df[i].sumDistance, Num(0))
    /\ \E i \in 1..Len(df) : df[i].sumDistance = Num(2000)

\* one record of km_stats, with numbers given as fractions
Record(km, hr, dist, dur, pace, length) ==
    [km_interval |-> km, directHeartRate |-> hr, sumDistance |-> dist,
     sumDuration |-> dur, interval_pace |-> pace, interval_length |-> length]

\* C6 (as claimed): for scenario 1 the aggregator returns exactly two records:
\* km 0 with boundary 1000 m / 400 s, pace 400/60 min/km and mean heart rate
\* 151; km 1 with boundary 2000 m / 900 s, interval distance 1.0 km, interval
\* duration 500/60 min, pace 500/60 min/km and mean heart rate 156.5.
C6_ScenarioTwoRecords ==
    (details = Scenario1 /\ pc # "start") =>
        /\ Returns
        /\ Len(records) = 2
        /\ records[1].km_interval = 0
        /\ records[1].sumDistance = Num(1000)
        /\ records[1].sumDuration = Num(400)
        /\ records[1].interval_pace = FDiv(Num(400), Num(60))
        /\ records[1].directHeartRate = Num(151)
        /\ records[2] =
              Record(1, FDiv(Num(313), Num(2)), Num(2000), Num(900),
                     FDiv(Num(500), Num(60)), Num(1))
        /\ split_duration[2] = FDiv(Num(500), Num(60))

\* C6 (amended): for scenario 1 the aggregator returns exactly three records,
\* because 1000 m and 1500 m fall into bucket 1 and 2000 m into bucket 2:
\* km 0 with boundary 999 m / 399 s, interval 0.999 km in 399/60 min, pace
\* 6650/999 min/km, mean heart rate 151; km 1 with boundary 1500 m / 650 s,
\* interval 0.501 km in 251/60 min, pace 12550/1503 min/km, mean heart rate 153;
\* km 2 with boundary 2000 m / 900 s, interval 0.5 km in 250/60 min, pace
\* 500/60 min/km, mean heart rate 158.
C6_ScenarioThreeRecords ==
    (details = Scenario1 /\ pc # "start") =>
        /\ Returns
        /\ records =
              << Record(0, Num(151), Num(999), Num(399),
                        FDiv(Num(6650), Num(999)), FDiv(Num(999), Num(1000))),
                 Record(1, Num(153), Num(1500), Num(650),
                        FDiv(Num(12550), Num(1503)), FDiv(Num(501), Num(1000))),
                 Record(2, Num(158), Num(2000), Num(900),
                        FDiv(Num(500), Num(60)), FDiv(Num(1), Num(2))) >>
        /\ split_duration =
              << FDiv(Num(399), Num(60)), FDiv(Num(251), Num(60)),
                 FDiv(Num(250), Num(60)) >>

\* C6's case: scenario 1 has been aggregated
C6_Witness == details = Scenario1 /\ pc = "returned"

\* a sample lacks a field that other samples carry: the column is float64 and
\* the sample's value in it NaN
LacksField(i, k) ==
    /\ IsNaN(samples[i][k])
    /\ \E j \in 1..Len(samples) : ~IsNaN(samples[j][k])

\* C7 (as claimed), for samples at non-negative distances that all carry a
\* heart rate: the aggregator fails, and returns no result, when the sample
\* sequence is empty or when a sample lacks the cumulative distance or the
\* cumulative duration that other samples carry.
C7_FailsOnInvalidInput ==
    (/\ pc # "start"
     /\ \A i \in 1..Len(samples) :
           /\ ~IsNaN(samples[i].directHeartRate)
           /\ ~FLess(samples[i].sumDistance, Num(0))
     /\ \/ samples = <<>>
        \/ \E i \in 1..Len(samples) :
              LacksField(i, "sumDistance") \/ LacksField(i, "sumDuration"))
    => (km_stats.kind = "error" /\ records = <<>>)

RECURSIVE FSum(_)
FSum(col) ==
    IF col = <<>> THEN Num(0)
    ELSE FAdd(FSum(SubSeq(col, 1, Len(col) - 1)), col[Len(col)])

\* C8: when the samples' cumulative distance is non-decreasing in input order,
\* the interval distances of the returned records sum to the last sample's
\* cumulative distance / 1000.
C8_DistanceConservation ==
    (Returns /\ NonDecreasing(Column(samples, "sumDistance"))) =>
        FSum(Column(records, "interval_length")) =
            FDiv(samples[Len(samples)].sumDistance, Num(1000))

\* C8's case: non-decreasing distances that end in a later bucket than they
\* start in
C8_Witness ==
    /\ Returns
    /\ CompleteSamples
    /\ NonDecreasing(Column(samples, "sumDistance"))
    /\ Len(records) >= 2
    /\ FLess(Num(0), samples[1].sumDistance)

\* C9: when the samples' cumulative distance and cumulative duration are both
\* non-decreasing in input order, the interval durations of the returned
\* records sum to the last sample's cumulative duration / 60.
C9_DurationConservation ==
    (/\ Returns
     /\ \A i \in 1..Len(samples) : ~IsNaN(samples[i].sumDuration)
     /\ NonDecreasing(Column(samples, "sumDistance"))
     /\ NonDecreasing(Column(samples, "sumDuration")))
    => FSum(split_duration) =
            FDiv(samples[Len(samples)].sumDuration, Num(60))

\* C9's case: distances and durations that grow from one bucket to a later one
C9_Witness ==
    /\ Returns
    /\ CompleteSamples
    /\ NonDecreasing(Column(samples, "sumDistance"))
    /\ Len(records) >= 2
    /\ FLess(Num(0), samples[1].sumDuration)
    /\ FLess(samples[1].sumDuration, samples[Len(samples)].sumDuration)

Kept(r) == \E h \in 1..Len(valid_splits) : valid_splits[h] = r

\* C10 (as claimed), for the records of complete samples at non-negative
\* distances: the filter keeps a record if and only if its pace is defined,
\* finite and non-zero and its kilometer index is at least 2.
C10_KeepsNonZeroPace ==
    (pc = "filtered" /\ CompleteSamples /\ NonNegativeDistances) =>
        \A g \in 1..Len(records) :
            Kept(records[g]) <=>
                /\ IsFinite(records[g].interval_pace)
                /\ records[g].interval_pace # Num(0)
                /\ records[g].km_interval >= 2

\* C10 (amended): the filter keeps a record if and only if its pace is
\* defined, finite and strictly positive and its kilometer index is at least
\* 2; the kept records are records of the aggregator, in their order.
C10_KeepsPositivePace ==
    pc = "filtered" =>
        /\ \A g \in 1..Len(records) :
              Kept(records[g]) <=>
                  /\ IsFinite(records[g].interval_pace)
                  /\ records[g].interval_pace.n > 0
                  /\ records[g].km_interval >= 2
        /\ \A h \in 1..Len(valid_splits) :
              \E g \in 1..Len(records) : records[g] = valid_splits[h]
        /\ \A h, j \in 1..Len(valid_splits) :
              h < j => valid_splits[h].km_interval < valid_splits[j].km_interval

\* C10's case: past the warm-up, one record is kept and one with a negative
\* pace is rejected
C10_Witness ==
    /\ pc = "filtered"
    /\ CompleteSamples
    /\ Len(valid_splits) = 1
    /\ \E g \in 1..Len(records) :
          /\ records[g].km_interval >= 2
          /\ IsFinite(records[g].interval_pace)
          /\ records[g].interval_pace.n < 0

---------------------------------------------------------------------------
\* C11: the fastest split selected for an activity is a record that survived
\* the filter, no survivor has a lower pace, and among the survivors with that
\* pace it has the lowest kilometer index; so its kilometer index is at least
\* the warm-up threshold, also when a record below the threshold is faster.
C11_FastestAmongSurvivors ==
    fastest_split # <<>> =>
        LET fastest == fastest_split[1]
        IN  /\ \E h \in 1..Len(valid_splits) : valid_splits[h] = fastest
            /\ fastest.km_interval >= 2
            /\ \A h \in 1..Len(valid_splits) :
                  /\ FLeq(fastest.interval_pace, valid_splits[h].interval_pace)
                  /\ valid_splits[h].interval_pace = fastest.interval_pace =>
                        fastest.km_interval <= valid_splits[h].km_interval

\* C11's case: a record below the warm-up threshold has a positive pace lower
\* than the selected one, and several records survive the filter
C11_Witness ==
    /\ pc = "appended"
    /\ fastest_split # <<>>
    /\ Len(valid_splits) >= 2
    /\ \E g \in 1..Len(records) :
          /\ records[g].km_interval < 2
          /\ FLess(Num(0), records[g].interval_pace)
          /\ FLess(records[g].interval_pace, fastest_split[1].interval_pace)

\* C12: a record whose pace is undefined is never selected as the fastest
\* split; when no record survives the filter, the activity has no fastest
\* split, no exception is raised, no entry is added, and the loop goes on.
C12_NoSurvivorNoEntry ==
    /\ fastest_split # <<>> => ~IsNaN(fastest_split[1].interval_pace)
    /\ (Returns /\ pc \notin {"returned", "filtered"} /\ valid_splits = <<>>) =>
          /\ pc = "skipped"
          /\ fastest_split = <<>>
          /\ activity_stats = <<>>

\* C12's case: the activity's records include one of undefined pace, none
\* survives the filter, and the loop body has run
C12_Witness ==
    /\ pc = "skipped"
    /\ CompleteSamples
    /\ valid_splits = <<>>
    /\ \E g \in 1..Len(records) : IsNaN(records[g].interval_pace)

\* C16: applying the split filter to an already filtered record sequence
\* returns that same sequence, the same records in the same order.
C16_FilterIdempotent ==
    pc \in {"filtered", "skipped", "appended"} =>
        /\ valid_splits = ValidSplits(records)
        /\ ValidSplits(valid_splits) = valid_splits

\* C16's case: the filter has kept several records and rejected others
C16_Witness ==
    /\ pc = "filtered"
    /\ Len(valid_splits) >= 2
    /\ Len(valid_splits) < Len(records)

\* the heart rates that are present in a column of samples
PresentHeartRates(col) == SelectSeq(col, LAMBDA x : ~IsNaN(x))

\* the arithmetic mean of the present values; undefined when there is none
MeanOfPresent(col) ==
    IF PresentHeartRates(col) = <<>> THEN NaN
    ELSE FDiv(FSum(PresentHeartRates(col)), Num(Len(PresentHeartRates(col))))

\* C14 (as claimed), for samples that all carry a non-negative distance and a
\* duration, and whose heart-rate column is not one the data frame holds as
\* all None: the aggregator returns, and every record's mean heart rate is the
\* arithmetic mean of the heart rates present among the samples of its bucket,
\* undefined when the bucket has none.
C14_MeanOfPresentHeartRates ==
    (/\ pc # "start"
     /\ samples # <<>>
     /\ NonNegativeDistances
     /\ \A i \in 1..Len(samples) : ~IsNaN(samples[i].sumDuration)
     /\ {"sumDistance", "sumDuration"} \subseteq details.metricDescriptors
     /\ "directHeartRate" \notin ObjectColumns(details))
    => /\ Returns
       /\ \A g \in 1..Len(records) :
             records[g].directHeartRate =
                MeanOfPresent(Column(Bucket(records[g]), "directHeartRate"))

\* C15 (as claimed), for a heart-rate column that the data frame does not hold
\* as all None: for an input of a single sample at distance 0 and duration 0
\* the aggregator raises no error and returns exactly one record, with
\* km_interval 0, interval_length 0 and an undefined pace.
C15_SingleSampleAtZero ==
    (/\ pc # "start"
     /\ Len(samples) = 1
     /\ samples[1].sumDistance = Num(0)
     /\ samples[1].sumDuration = Num(0)
     /\ {"sumDistance", "sumDuration"} \subseteq details.metricDescriptors
     /\ "directHeartRate" \notin ObjectColumns(details))
    => /\ Returns
       /\ Len(records) = 1
       /\ records[1].km_interval = 0
       /\ records[1].interval_length = Num(0)
       /\ IsNaN(records[1].interval_pace)

\* a file whose handling raises: json.load fails, process_activity_data
\* raises, or the timestamp of its name does not parse
Fails(f) ==
    \/ ~f.readable
    \/ f.details.activityDetailMetrics = <<>>
    \/ ~f.name.wellformed

\* a file that loads, is processed and has a split the filter keeps
HasValidSplit(f) ==
    /\ ~Fails(f)
    /\ \E r \in
         {WithPace(GroupByAgg(WithKmInterval(f.details.activityDetailMetrics)))[g] :
             g \in 1..Len(GroupByAgg(WithKmInterval(f.details.activityDetailMetrics)))} :
          ValidSplit(r)

HasEntry(table, f) ==
    \E e \in 1..Len(table) : table[e].timestamp = f.name.timestamp

\* C13: a failure while loading or processing one activity file does not
\* abort the batch: the loop goes through every file, every file handled so
\* far that has a valid split has its entry, and the returned table holds an
\* entry for each activity that has a valid split, whatever the other files.
C13_BatchSurvivesFailures ==
    /\ \A i \in 1..Len(json_files) :
          (i < file_index /\ HasValidSplit(json_files[i]))
             => HasEntry(activity_stats, json_files[i])
    /\ pc = "done" =>
          /\ file_index = Len(json_files) + 1
          /\ \A i \in 1..Len(json_files) :
                HasValidSplit(json_files[i]) => HasEntry(results_df, json_files[i])
          /\ Len(results_df) =
                Cardinality({i \in 1..Len(json_files) : HasValidSplit(json_files[i])})

\* C13's case: a file whose handling raised was followed by a file with a
\* valid split, and the table returned holds that file's entry
C13_Witness ==
    /\ pc = "done"
    /\ \E i, j \in 1..Len(json_files) :
          /\ i < j
          /\ Fails(json_files[i])
          /\ HasValidSplit(json_files[j])
          /\ HasEntry(results_df, json_files[j])

---------------------------------------------------------------------------
\* load_running_activities has returned
Loaded == pc \in {"loaded", "distances", "longest"}

\* the activity tuples of the files that satisfy Wanted, in directory order
EntriesOf(Wanted(_)) ==
    LET files == SelectSeq(summary_files, Wanted)
    IN  [i \in 1..Len(files) |-> Activity(files[i])]

Occurrences(seq, x) == Cardinality({i \in 1..Len(seq) : seq[i] = x})

\* acts holds the entries of wanted, each as often, in timestamp order
ExactlySorted(acts, wanted) ==
    /\ Len(acts) = Len(wanted)
    /\ \A i \in 1..Len(wanted) :
          Occurrences(acts, wanted[i]) = Occurrences(wanted, wanted[i])
    /\ \A i, j \in 1..Len(acts) :
          i < j => acts[i].timestamp <= acts[j].timestamp

RunningWithSpeed(f) ==
    f.decodes /\ f.typeKey = "running" /\ ~IsNaN(f.averageSpeed)

RunningWithSpeedAndTimestamp(f) == RunningWithSpeed(f) /\ f.name.wellformed

HoursPerWeek == HoursPerDay * DaysPerWeek

\* week starts at a Monday 00:00 (timestamp 0 is one) and holds timestamp
InWeek(timestamp, week) ==
    /\ week % HoursPerWeek = 0
    /\ week <= timestamp
    /\ timestamp < week + HoursPerWeek

\* the distances, in km, of the activities of a week that have a distance
KmOfWeek(week) ==
    LET InThisWeek(a) == ~IsNaN(a.distance) /\ InWeek(a.timestamp, week)
        runs == SelectSeq(activities, InThisWeek)
    IN  [i \in 1..Len(runs) |-> FDiv(runs[i].distance, Num(MetersPerKm))]

\* the distances, in meters, of all activities that have one
AllDistances ==
    LET HasDistance(a) == ~IsNaN(a.distance)
        runs == SelectSeq(activities, HasDistance)
    IN  [i \in 1..Len(runs) |-> runs[i].distance]

\* C19: calculate_weekly_distances assigns every activity that has a distance
\* to the week starting on the Monday 00:00 on or before its timestamp; each
\* weekly value is the sum in km of the distances of that week's activities,
\* the weeks are strictly ascending, and the weekly values sum to the sum of
\* all non-null distances divided by 1000.
C19_WeeklyDistances ==
    pc \in {"distances", "longest"} =>
        LET week_dates == weekly_distances.week_dates
            distances_km == weekly_distances.values
        IN  /\ Len(distances_km) = Len(week_dates)
            /\ \A a \in 1..Len(activities) :
                  ~IsNaN(activities[a].distance) =>
                     \E w \in 1..Len(week_dates) :
                        InWeek(activities[a].timestamp, week_dates[w])
            /\ \A w \in 1..Len(week_dates) :
                  /\ KmOfWeek(week_dates[w]) # <<>>
                  /\ distances_km[w] = FSum(KmOfWeek(week_dates[w]))
            /\ \A w \in 1..Len(week_dates) - 1 : week_dates[w] < week_dates[w + 1]
            /\ FSum(distances_km) = FDiv(FSum(AllDistances), Num(MetersPerKm))

\* C19's case: two weeks, one of them with two activities, one of which is
\* later than Monday 00:00
C19_Witness ==
    /\ pc = "distances"
    /\ Len(weekly_distances.week_dates) = 2
    /\ \E w \in 1..2 :
          /\ Len(KmOfWeek(weekly_distances.week_dates[w])) = 2
          /\ \E a \in 1..Len(activities) :
                /\ ~IsNaN(activities[a].distance)
                /\ activities[a].timestamp > weekly_distances.week_dates[w]
                /\ InWeek(activities[a].timestamp, weekly_distances.week_dates[w])

\* x is a value of col and no value of col is larger
IsLargestOf(x, col) ==
    /\ \E i \in 1..Len(col) : col[i] = x
    /\ \A i \in 1..Len(col) : FLeq(col[i], x)

\* the week dates of both functions are the same, and the longest run of a
\* week is at most the week's total when no distance is negative
SameWeeksAndBelowTotal ==
    /\ weekly_longest.week_dates = weekly_distances.week_dates
    /\ Len(weekly_longest.values) = Len(weekly_longest.week_dates)
    /\ (\A a \in 1..Len(AllDistances) : FLeq(Num(0), AllDistances[a])) =>
          \A w \in 1..Len(weekly_longest.week_dates) :
             FLeq(weekly_longest.values[w], weekly_distances.values[w])

---------------------------------------------------------------------------
\* C21: whenever process_activity_data returns, in any input order, every
\* record other than the first has an interval distance strictly greater
\* than zero, so its pace has no zero denominator: it is not infinite.
C21_LaterIntervalsPositive ==
    Returns =>
        \A g \in 2..Len(records) :
            /\ FLess(Num(0), records[g].interval_length)
            /\ ~IsInf(records[g].interval_pace)

\* C21's case: samples given in descending order of distance, several
\* records returned, and the first record's interval distance is zero
C21_Witness ==
    /\ Returns
    /\ CompleteSamples
    /\ Len(records) >= 2
    /\ records[1].interval_length = Num(0)
    /\ FLess(samples[2].sumDistance, samples[1].sumDistance)

\* C22 (as claimed), for activities whose samples are complete: the
\* fastest pace of every entry is positive and finite, and its formatted
\* string has the form MM:SS, two digits, a colon, two digits, with the
\* seconds field between 00 and 59.
C22_PaceStringIsMMSS ==
    CompleteSamples =>
        \A e \in 1..Len(activity_stats) :
            LET str == activity_stats[e].fastest_pace_str
                IsDigit(c) == \E d \in 1..10 : DigitChars[d] = c
            IN  /\ FLess(Num(0), activity_stats[e].fastest_pace)
                /\ IsFinite(activity_stats[e].fastest_pace)
                /\ Len(str) = 5
                /\ IsDigit(str[1]) /\ IsDigit(str[2])
                /\ str[3] = ":"
                /\ str[4] \in {"0", "1", "2", "3", "4", "5"}
                /\ IsDigit(str[5])

\* C23 (as claimed), for complete samples whose cumulative distance and
\* duration are non-negative and do not decrease in input order: the distance
\* of the activity's entry is the largest cumulative distance over all of
\* its samples, in kilometers.
C23_DistanceIsTotal ==
    (/\ pc = "appended"
     /\ CompleteSamples
     /\ NonNegativeDistances
     /\ NonDecreasing(Column(samples, "sumDistance"))
     /\ NonDecreasing(Column(samples, "sumDuration")))
    => \E i \in 1..Len(samples) :
          /\ IsLargestOf(samples[i].sumDistance, Column(samples, "sumDistance"))
          /\ activity_stats[Len(activity_stats)].distance =
                FDiv(samples[i].sumDistance, Num(MetersPerKm))

---------------------------------------------------------------------------
\* some call so far was op
Called(op) == \E i \in 1..Len(calls) : calls[i].op = op

\* C24: in the credential fallback of init_api the tokens are dumped to the
\* token store only directly after a credential login that completed without
\* error: login() returned without needs_mfa, or it returned needs_mfa and
\* the MFA code was asked for and resume_login returned.  The MFA code is
\* asked for only directly after login() reported needs_mfa.  The store is
\* written exactly when a dump returned, and a client returned after a dump
\* has logged in from the token store after that dump.
C24_TokensWrittenAfterLogin ==
    /\ \A i \in 1..Len(calls) :
          calls[i].op = "dump" =>
             \/ /\ i > 1
                /\ calls[i - 1] = Call("login()", "ok")
             \/ /\ i > 3
                /\ calls[i - 3] = Call("login()", "needs_mfa")
                /\ calls[i - 2] = Call("get_mfa", "ok")
                /\ calls[i - 1] = Call("resume_login", "ok")
    /\ \A i \in 1..Len(calls) :
          calls[i].op = "get_mfa" =>
             i > 1 /\ calls[i - 1] = Call("login()", "needs_mfa")
    /\ tokenstore = "written" <=>
          \E i \in 1..Len(calls) : calls[i] = Call("dump", "ok")
    /\ (pc = "returned_client" /\ Called("dump")) =>
          /\ calls[Len(calls) - 1] = Call("dump", "ok")
          /\ calls[Len(calls)] = Call("login(tokenstore)", "ok")
          /\ api = "logged in"

\* C24's case: the token login failed, credentials and the MFA code were
\* asked for, the tokens were written and the client was returned
C24_Witness ==
    /\ pc = "returned_client"
    /\ calls[1].result # "ok"
    /\ Called("get_credentials")
    /\ Called("get_mfa")
    /\ Called("resume_login")
    /\ tokenstore = "written"

\* C25: when the token login from the token store succeeds, init_api returns
\* the logged-in client, having asked for neither credentials nor an MFA
\* code, made no other call, and left the token store as it was.
C25_TokenLoginReturnsClient ==
    (calls # <<>> /\ calls[1] = Call("login(tokenstore)", "ok")) =>
        /\ pc = "returned_client"
        /\ api = "logged in"
        /\ calls = <<Call("login(tokenstore)", "ok")>>
        /\ ~Called("get_credentials")
        /\ ~Called("get_mfa")
        /\ ~Called("dump")
        /\ tokenstore = "stored"

\* C25's case: the first token login succeeded although no credentials are
\* set, and init_api has returned
C25_Witness ==
    /\ pc = "returned_client"
    /\ calls[1] = Call("login(tokenstore)", "ok")
    /\ ~credentials

===========================================================================
